---- MODULE Spec2Model ----
(***************************************************************************)
(* Model of the product document generator (generate_product_docs.py) and  *)
(* of the product store (product_requester.py).                            *)
(*                                                                         *)
(* A product record is an insertion-ordered mapping, modelled as a         *)
(* sequence of [key, value] entries with pairwise distinct keys.  The      *)
(* document is the sequence of render instructions the builder issues.     *)
(***************************************************************************)
EXTENDS Integers, Sequences, FiniteSets, TLC

VARIABLES
  product_data,      \* the record create_product_document is building
  pc,                \* position of the build: "idle", "start", "loop", "done"
  idx,               \* position of the loop over product_data.items()
  processed_fields,  \* the set of field names already handled
  doc,               \* the document: the render instructions issued so far
  products_file,     \* products_data.json: [exists, products]
  add_result,        \* what the last add_new_product call returned
  service_calls,     \* service requests made by the last add_new_product call
  call,              \* the last add_new_product call: [title, key, r]
  name,              \* the product name a file name is made from
  filename,          \* what clean_filename returned for it
  products,          \* the collection generate_product_docs loaded at import
  mode,              \* how generate_product_docs was started
  enum_i,            \* main's position in enumerate(products, 1)
  output_dir,        \* Product_Documents: the saved files
  exit_status,       \* the exit status of generate_product_docs
  built,             \* what each create_product_document call of the run returned
  response_text,     \* the service's response, as lexical tokens
  returned,          \* what get_product_info_from_openai returned for it
  ui_pc,             \* the input() the interactive main of product_requester waits at
  locals,            \* the local variables of that main
  ui_event           \* what its last step called: add_new_product, the render subprocess

docVars == <<product_data, pc, idx, processed_fields, doc>>
storeVars == <<products_file, add_result, service_calls, call>>
fileVars == <<name, filename>>
mainVars == <<products, mode, enum_i, output_dir, exit_status, built>>
parseVars == <<response_text, returned>>
envVars == <<storeVars, fileVars, mainVars, parseVars, ui_pc, locals, ui_event>>
vars == <<docVars, envVars>>

\* Longest record of the free-order family.
MaxFields == 4
\* Number of fields of the prompt-ordered record that are dropped or emptied.
MaxAltered == 1
\* Most records the store grows to.
MaxProducts == 3

(***************************************************************************)
(* Strings.  TLC cannot look inside a string, so every string the code     *)
(* inspects is spelled out as its tuple of characters.                     *)
(***************************************************************************)
CharTable ==
   "Title" :> <<"T", "i", "t", "l", "e">> @@
   "SKU" :> <<"S", "K", "U">> @@
   "Scientific Name / mix %" :> <<"S", "c", "i", "e", "n", "t", "i", "f", "i", "c", " ", "N", "a", "m", "e", " ", "/", " ", "m", "i", "x", " ", "%">> @@
   "What is the? ( SEO Description 100-200 words) " :> <<"W", "h", "a", "t", " ", "i", "s", " ", "t", "h", "e", "?", " ", "(", " ", "S", "E", "O", " ", "D", "e", "s", "c", "r", "i", "p", "t", "i", "o", "n", " ", "1", "0", "0", "-", "2", "0", "0", " ", "w", "o", "r", "d", "s", ")", " ">> @@
   "Sun Requirements (Full Sun, Full Sun to Partial Shade, Shade)" :> <<"S", "u", "n", " ", "R", "e", "q", "u", "i", "r", "e", "m", "e", "n", "t", "s", " ", "(", "F", "u", "l", "l", " ", "S", "u", "n", ",", " ", "F", "u", "l", "l", " ", "S", "u", "n", " ", "t", "o", " ", "P", "a", "r", "t", "i", "a", "l", " ", "S", "h", "a", "d", "e", ",", " ", "S", "h", "a", "d", "e", ")">> @@
   "Soil Preference" :> <<"S", "o", "i", "l", " ", "P", "r", "e", "f", "e", "r", "e", "n", "c", "e">> @@
   "Soil pH" :> <<"S", "o", "i", "l", " ", "p", "H">> @@
   "Days to Maturity" :> <<"D", "a", "y", "s", " ", "t", "o", " ", "M", "a", "t", "u", "r", "i", "t", "y">> @@
   "Height when mature" :> <<"H", "e", "i", "g", "h", "t", " ", "w", "h", "e", "n", " ", "m", "a", "t", "u", "r", "e">> @@
   "Seeding rate" :> <<"S", "e", "e", "d", "i", "n", "g", " ", "r", "a", "t", "e">> @@
   "Planting Depth" :> <<"P", "l", "a", "n", "t", "i", "n", "g", " ", "D", "e", "p", "t", "h">> @@
   "Why chose this product Title 1" :> <<"W", "h", "y", " ", "c", "h", "o", "s", "e", " ", "t", "h", "i", "s", " ", "p", "r", "o", "d", "u", "c", "t", " ", "T", "i", "t", "l", "e", " ", "1">> @@
   "Why chose this product Title 2" :> <<"W", "h", "y", " ", "c", "h", "o", "s", "e", " ", "t", "h", "i", "s", " ", "p", "r", "o", "d", "u", "c", "t", " ", "T", "i", "t", "l", "e", " ", "2">> @@
   "Why chose this product Title 3" :> <<"W", "h", "y", " ", "c", "h", "o", "s", "e", " ", "t", "h", "i", "s", " ", "p", "r", "o", "d", "u", "c", "t", " ", "T", "i", "t", "l", "e", " ", "3">> @@
   "Why chose this product Title 4" :> <<"W", "h", "y", " ", "c", "h", "o", "s", "e", " ", "t", "h", "i", "s", " ", "p", "r", "o", "d", "u", "c", "t", " ", "T", "i", "t", "l", "e", " ", "4">> @@
   "Why chose this product Title 5" :> <<"W", "h", "y", " ", "c", "h", "o", "s", "e", " ", "t", "h", "i", "s", " ", "p", "r", "o", "d", "u", "c", "t", " ", "T", "i", "t", "l", "e", " ", "5">> @@
   "Why chose this product 1" :> <<"W", "h", "y", " ", "c", "h", "o", "s", "e", " ", "t", "h", "i", "s", " ", "p", "r", "o", "d", "u", "c", "t", " ", "1">> @@
   "Why chose this product 2" :> <<"W", "h", "y", " ", "c", "h", "o", "s", "e", " ", "t", "h", "i", "s", " ", "p", "r", "o", "d", "u", "c", "t", " ", "2">> @@
   "Why chose this product 3" :> <<"W", "h", "y", " ", "c", "h", "o", "s", "e", " ", "t", "h", "i", "s", " ", "p", "r", "o", "d", "u", "c", "t", " ", "3">> @@
   "Why chose this product 4" :> <<"W", "h", "y", " ", "c", "h", "o", "s", "e", " ", "t", "h", "i", "s", " ", "p", "r", "o", "d", "u", "c", "t", " ", "4">> @@
   "Why chose this product 5" :> <<"W", "h", "y", " ", "c", "h", "o", "s", "e", " ", "t", "h", "i", "s", " ", "p", "r", "o", "d", "u", "c", "t", " ", "5">> @@
   "Sun/Shade" :> <<"S", "u", "n", "/", "S", "h", "a", "d", "e">> @@
   "Height when Mature" :> <<"H", "e", "i", "g", "h", "t", " ", "w", "h", "e", "n", " ", "M", "a", "t", "u", "r", "e">> @@
   "Seeding Rate" :> <<"S", "e", "e", "d", "i", "n", "g", " ", "R", "a", "t", "e">> @@
   "Uses" :> <<"U", "s", "e", "s">> @@
   "Color" :> <<"C", "o", "l", "o", "r">> @@
   "Water" :> <<"W", "a", "t", "e", "r">> @@
   "Native/Introduced" :> <<"N", "a", "t", "i", "v", "e", "/", "I", "n", "t", "r", "o", "d", "u", "c", "e", "d">> @@
   "Life Form" :> <<"L", "i", "f", "e", " ", "F", "o", "r", "m">> @@
   "Planting Guide Step 1" :> <<"P", "l", "a", "n", "t", "i", "n", "g", " ", "G", "u", "i", "d", "e", " ", "S", "t", "e", "p", " ", "1">> @@
   "Planting Guide Step 2" :> <<"P", "l", "a", "n", "t", "i", "n", "g", " ", "G", "u", "i", "d", "e", " ", "S", "t", "e", "p", " ", "2">> @@
   "Planting Guide Step 3" :> <<"P", "l", "a", "n", "t", "i", "n", "g", " ", "G", "u", "i", "d", "e", " ", "S", "t", "e", "p", " ", "3">> @@
   "Planting Guide Step 4" :> <<"P", "l", "a", "n", "t", "i", "n", "g", " ", "G", "u", "i", "d", "e", " ", "S", "t", "e", "p", " ", "4">> @@
   "FAQ 1" :> <<"F", "A", "Q", " ", "1">> @@
   "FAQ 2" :> <<"F", "A", "Q", " ", "2">> @@
   "FAQ 3" :> <<"F", "A", "Q", " ", "3">> @@
   "FAQ 4" :> <<"F", "A", "Q", " ", "4">> @@
   "FAQ 5" :> <<"F", "A", "Q", " ", "5">> @@
   "FAQ 6" :> <<"F", "A", "Q", " ", "6">> @@
   "Main category" :> <<"M", "a", "i", "n", " ", "c", "a", "t", "e", "g", "o", "r", "y">> @@
   "Cost" :> <<"C", "o", "s", "t">> @@
   "Landing Cost" :> <<"L", "a", "n", "d", "i", "n", "g", " ", "C", "o", "s", "t">> @@
   "Bag size" :> <<"B", "a", "g", " ", "s", "i", "z", "e">> @@
   "Bag Price" :> <<"B", "a", "g", " ", "P", "r", "i", "c", "e">> @@
   "price/lb" :> <<"p", "r", "i", "c", "e", "/", "l", "b">> @@
   "title" :> <<"t", "i", "t", "l", "e">> @@
   "name" :> <<"n", "a", "m", "e">> @@
   "sku" :> <<"s", "k", "u">> @@
   "description" :> <<"d", "e", "s", "c", "r", "i", "p", "t", "i", "o", "n">> @@
   "what is" :> <<"w", "h", "a", "t", " ", "i", "s">> @@
   "why chose this product title" :> <<"w", "h", "y", " ", "c", "h", "o", "s", "e", " ", "t", "h", "i", "s", " ", "p", "r", "o", "d", "u", "c", "t", " ", "t", "i", "t", "l", "e">> @@
   "planting guide step" :> <<"p", "l", "a", "n", "t", "i", "n", "g", " ", "g", "u", "i", "d", "e", " ", "s", "t", "e", "p">> @@
   "FAQ " :> <<"F", "A", "Q", " ">> @@
   "why chose this product" :> <<"w", "h", "y", " ", "c", "h", "o", "s", "e", " ", "t", "h", "i", "s", " ", "p", "r", "o", "d", "u", "c", "t">> @@
   "Why chose this product " :> <<"W", "h", "y", " ", "c", "h", "o", "s", "e", " ", "t", "h", "i", "s", " ", "p", "r", "o", "d", "u", "c", "t", " ">> @@
   "Why chose this product Title " :> <<"W", "h", "y", " ", "c", "h", "o", "s", "e", " ", "t", "h", "i", "s", " ", "p", "r", "o", "d", "u", "c", "t", " ", "T", "i", "t", "l", "e", " ">> @@
   "text" :> <<"t", "e", "x", "t">> @@
   "A b" :> <<"A", " ", "b">> @@
   "A-b" :> <<"A", "-", "b">> @@
   "a B" :> <<"a", " ", "B">> @@
   "C" :> <<"C">> @@
   "Blue Flax (Linum lewisii)" :> <<"B", "l", "u", "e", " ", "F", "l", "a", "x", " ", "(", "L", "i", "n", "u", "m", " ", "l", "e", "w", "i", "s", "i", "i", ")">> @@
   "Blue_Flax_Linum_lewisii" :> <<"B", "l", "u", "e", "_", "F", "l", "a", "x", "_", "L", "i", "n", "u", "m", "_", "l", "e", "w", "i", "s", "i", "i">> @@
   "Product_" :> <<"P", "r", "o", "d", "u", "c", "t", "_">> @@
   "sk-key" :> <<"s", "k", "-", "k", "e", "y">> @@
   " " :> <<" ">> @@
   "" :> <<>>


Chars(s) == CharTable[s]

Range(s) == {s[i] : i \in 1..Len(s)}

UpperLetters == <<"A","B","C","D","E","F","G","H","I","J","K","L","M","N","O","P","Q","R","S","T","U","V","W","X","Y","Z">>
LowerLetters == <<"a","b","c","d","e","f","g","h","i","j","k","l","m","n","o","p","q","r","s","t","u","v","w","x","y","z">>

\* Tabulate(f) is f with every value computed once (TLC keeps [x \in S |-> e] unevaluated)
Tabulate(f) == f @@ <<>>

LowerMap == Tabulate([c \in Range(UpperLetters) |->
                        LowerLetters[CHOOSE i \in 1..Len(UpperLetters) : UpperLetters[i] = c]])
UpperMap == Tabulate([c \in Range(LowerLetters) |->
                        UpperLetters[CHOOSE i \in 1..Len(LowerLetters) : LowerLetters[i] = c]])

\* str.lower() on one character
LowerChar(c) == IF c \in DOMAIN LowerMap THEN LowerMap[c] ELSE c

\* str.upper() on one character
UpperChar(c) == IF c \in DOMAIN UpperMap THEN UpperMap[c] ELSE c

\* str.lower()
RECURSIVE Lower(_)
Lower(s) == IF s = <<>> THEN <<>> ELSE <<LowerChar(Head(s))>> \o Lower(Tail(s))

\* sub in s
Contains(s, sub) ==
  \E i \in 0..(Len(s) - Len(sub)) : SubSeq(s, i + 1, i + Len(sub)) = sub

\* s.startswith(p)
StartsWith(s, p) == Len(p) <= Len(s) /\ SubSeq(s, 1, Len(p)) = p

\* s.split(): the maximal runs of non-blank characters
RECURSIVE SplitFrom(_, _, _)
SplitFrom(s, i, cur) ==
  IF i > Len(s) THEN (IF cur = <<>> THEN <<>> ELSE <<cur>>)
  ELSE IF s[i] = " "
       THEN (IF cur = <<>> THEN SplitFrom(s, i + 1, <<>>)
             ELSE <<cur>> \o SplitFrom(s, i + 1, <<>>))
       ELSE SplitFrom(s, i + 1, Append(cur, s[i]))

Split(s) == SplitFrom(s, 1, <<>>)

\* key.split()[-1]
LastToken(s) == Split(s)[Len(Split(s))]

\* s.replace(old, new) for a one-character old
RECURSIVE ReplaceChar(_, _, _)
ReplaceChar(s, old, new) ==
  IF s = <<>> THEN <<>>
  ELSE (IF Head(s) = old THEN new ELSE <<Head(s)>>) \o ReplaceChar(Tail(s), old, new)

\* word.capitalize()
Capitalize(w) ==
  IF w = <<>> THEN <<>> ELSE <<UpperChar(w[1])>> \o Lower(Tail(w))

RECURSIVE CapitalizeAll(_)
CapitalizeAll(ws) ==
  IF ws = <<>> THEN <<>> ELSE <<Capitalize(Head(ws))>> \o CapitalizeAll(Tail(ws))

\* ' '.join(words)
RECURSIVE JoinWords(_)
JoinWords(ws) ==
  IF ws = <<>> THEN <<>>
  ELSE IF Len(ws) = 1 THEN ws[1]
  ELSE ws[1] \o <<" ">> \o JoinWords(Tail(ws))


(***************************************************************************)
(* Field names.                                                            *)
(***************************************************************************)
\* The record layout requested from the text-generation service, in order.
PromptFields ==
  <<"Title", "SKU", "Scientific Name / mix %",
    "What is the? ( SEO Description 100-200 words) ",
    "Sun Requirements (Full Sun, Full Sun to Partial Shade, Shade)",
    "Soil Preference", "Soil pH", "Days to Maturity", "Height when mature",
    "Seeding rate", "Planting Depth",
    "Why chose this product Title 1", "Why chose this product Title 2",
    "Why chose this product Title 3", "Why chose this product Title 4",
    "Why chose this product Title 5",
    "Why chose this product 1", "Why chose this product 2",
    "Why chose this product 3", "Why chose this product 4",
    "Why chose this product 5",
    "Sun/Shade", "Height when Mature", "Seeding Rate", "Uses", "Color",
    "Water", "Native/Introduced", "Life Form",
    "Planting Guide Step 1", "Planting Guide Step 2",
    "Planting Guide Step 3", "Planting Guide Step 4",
    "FAQ 1", "FAQ 2", "FAQ 3", "FAQ 4", "FAQ 5", "FAQ 6",
    "Main category">>

skip_fields ==
  <<"Main category", "Cost", "Landing Cost", "Bag size", "Bag Price", "price/lb">>

table1_fields ==
  <<"Sun Requirements (Full Sun, Full Sun to Partial Shade, Shade)",
    "Soil Preference", "Soil pH", "Days to Maturity", "Height when mature",
    "Seeding rate", "Planting Depth">>

table2_fields ==
  <<"Sun/Shade", "Height when Mature", "Seeding Rate", "Uses", "Color",
    "Water", "Native/Introduced", "Life Form">>

\* title_keywords without 'sku'
title_keywords_NoSku == <<"title", "name">>

title_keywords == <<"title", "name", "sku">>

FieldNames == Range(PromptFields) \cup Range(skip_fields)

\* A key that is in no record.
NoKey == "<absent>"

\* The field name spelled by a tuple of characters, NoKey when no field has it.
NameOf(cs) ==
  IF \E k \in FieldNames : Chars(k) = cs
  THEN CHOOSE k \in FieldNames : Chars(k) = cs
  ELSE NoKey

\* range(1, 6) of the gate check, as the digits the f-string prints
GateNumerals == <<<<"1">>, <<"2">>, <<"3">>, <<"4">>, <<"5">>>>

(***************************************************************************)
(* Pure helpers of generate_product_docs.py.                               *)
(***************************************************************************)
\* [none |-> TRUE] stands for None
FormatFieldName(key) ==
  IF key \in Range(skip_fields)
  THEN [none |-> TRUE, text |-> <<>>]
  ELSE [none |-> FALSE,
        text |-> LET replaced == ReplaceChar(ReplaceChar(Chars(key), "_", <<" ">>),
                                             "/", <<" ", "/", " ">>)
                     words == Split(replaced)
                 IN  JoinWords(CapitalizeAll(words))]

\* format_field_name, tabulated once per field name
FormatTable == Tabulate([k \in FieldNames |-> FormatFieldName(k)])
format_field_name(key) == FormatTable[key]

\* any(keyword in key.lower() for keyword in title_keywords)
IsTitleField(key) ==
  \E i \in 1..Len(title_keywords) :
     Contains(Lower(Chars(key)), Chars(title_keywords[i]))
TitleFieldTable == Tabulate([k \in FieldNames |-> IsTitleField(k)])
is_title_field(key) == TitleFieldTable[key]

\* Name tests of the classification chain, tabulated once per field name.
\* 'description' in key.lower() or 'what is' in key.lower()
DescriptionTable ==
  Tabulate([k \in FieldNames |-> \/ Contains(Lower(Chars(k)), Chars("description"))
                                 \/ Contains(Lower(Chars(k)), Chars("what is"))])
\* 'why chose this product title' in key.lower()
WhyChoseTitleTable ==
  Tabulate([k \in FieldNames |->
              Contains(Lower(Chars(k)), Chars("why chose this product title"))])
\* 'planting guide step' in key.lower()
PlantingStepTable ==
  Tabulate([k \in FieldNames |-> Contains(Lower(Chars(k)), Chars("planting guide step"))])
\* key.startswith('FAQ ')
FaqTable == Tabulate([k \in FieldNames |-> StartsWith(Chars(k), Chars("FAQ "))])
\* 'why chose this product' in key.lower() and not 'title' in key.lower()
WhyChoseBodyTable ==
  Tabulate([k \in FieldNames |-> /\ Contains(Lower(Chars(k)), Chars("why chose this product"))
                                 /\ ~Contains(Lower(Chars(k)), Chars("title"))])

\* title_num = key.split()[-1]; content_key = f"Why chose this product {title_num}"
ContentKeyTable ==
  Tabulate([k \in FieldNames |->
              NameOf(Chars("Why chose this product ") \o LastToken(Chars(k)))])
\* content_key built from the first numeral whatever the title's own
content_key_of_FirstBody(key) == NameOf(Chars("Why chose this product ") \o <<"1">>)

content_key_of(key) == ContentKeyTable[key]

\* title_key = f"Why chose this product Title {i}" for i in range(1, 6)
GateTitleKeys ==
  [i \in 1..Len(GateNumerals) |->
     NameOf(Chars("Why chose this product Title ") \o GateNumerals[i])] @@ <<>>

\* step_num / faq_num = key.split()[-1]
NumeralTable == Tabulate([k \in FieldNames |-> LastToken(Chars(k))])

(***************************************************************************)
(* Records (ordered dicts) and render instructions.                        *)
(***************************************************************************)
Keys(data) == {data[i].key : i \in 1..Len(data)}

\* key in product_data
Has(data, k) == k \in Keys(data)

\* product_data[key]
Get(data, k) == data[CHOOSE i \in 1..Len(data) : data[i].key = k].value

\* product_data.get(key, default)
GetOr(data, k, default) == IF Has(data, k) THEN Get(data, k) ELSE default

\* not value
Falsy(value) == value = ""

Instr(kind, level, num, field, text, rows) ==
  [kind |-> kind, level |-> level, num |-> num, field |-> field,
   text |-> text, rows |-> rows]

TitleInstr(k, text)         == Instr("Title", 1, <<>>, k, text, <<>>)
TableInstr(title, rows)     == Instr("Table", 2, <<>>, NoKey, title, rows)
HeadingInstr(level, k, v)   == Instr("Heading", level, <<>>, k, v, <<>>)
LabeledInstr(k, v)          == Instr("LabeledParagraph", 0, <<>>, k, v, <<>>)
ParagraphInstr(k, v)        == Instr("Paragraph", 0, <<>>, k, v, <<>>)
SteppedInstr(num, k, v)     == Instr("SteppedItem", 3, num, k, v, <<>>)
FaqInstr(num, k, v)         == Instr("FaqItem", 0, num, k, v, <<>>)

\* PresentFields without the truthiness test: "if field in product_data:"
RECURSIVE PresentFields_AnyValue(_, _)
PresentFields_AnyValue(fields, data) ==
  IF fields = <<>> THEN <<>>
  ELSE (IF Has(data, Head(fields)) THEN <<Head(fields)>> ELSE <<>>)
       \o PresentFields_AnyValue(Tail(fields), data)

\* The fields of the fixed list that are present with a truthy value, in list order.
RECURSIVE PresentFields(_, _)
PresentFields(fields, data) ==
  IF fields = <<>> THEN <<>>
  ELSE (IF Has(data, Head(fields)) /\ ~Falsy(Get(data, Head(fields)))
        THEN <<Head(fields)>> ELSE <<>>) \o PresentFields(Tail(fields), data)

\* tableN_data: the (field, value) pairs collected for a table
TableData(fields, data) ==
  LET present == PresentFields(fields, data)
  IN  [i \in 1..Len(present) |-> [key |-> present[i], value |-> Get(data, present[i])]]

\* the gate of lines 209-214 left out: why_chose_done stays True
why_chose_done_AlwaysOpen(data, processed) == TRUE

\* why_chose_done with the membership test inverted: a missing title closes the gate
why_chose_done_MissingCloses(data, processed) ==
  \A i \in 1..Len(GateTitleKeys) :
     Has(data, GateTitleKeys[i]) /\ GateTitleKeys[i] \in processed

\* why_chose_done
why_chose_done(data, processed) ==
  \A i \in 1..Len(GateTitleKeys) :
     ~(Has(data, GateTitleKeys[i]) /\ GateTitleKeys[i] \notin processed)

\* the title-like test of the identifier and fallback rules
HeadingOrLabeled(key, value) ==
  IF is_title_field(key) THEN HeadingInstr(2, key, value) ELSE LabeledInstr(key, value)

(***************************************************************************)
(* create_product_document: the classification chain of one loop pass.     *)
(* The first rule whose test passes handles the field.                     *)
(***************************************************************************)
\* Rule with the table-2 "continue" outside "if why_chose_done": a closed gate skips the field
Rule_ContinueOutsideGate(key, value, data, processed) ==
  IF Falsy(value) \/ value = "" \/ key \in processed THEN "skip"
  ELSE IF format_field_name(key).none THEN "technical"
  ELSE IF key \in Range(table1_fields) /\ key \notin processed THEN "table1"
  ELSE IF key \in {"SKU", "Scientific Name / mix %"} THEN "identifier"
  ELSE IF DescriptionTable[key] THEN "description"
  ELSE IF WhyChoseTitleTable[key] THEN "why_title"
  ELSE IF key \in Range(table2_fields) /\ key \notin processed
       THEN (IF why_chose_done(data, processed) THEN "table2" ELSE "skip")
  ELSE IF PlantingStepTable[key] THEN "planting"
  ELSE IF FaqTable[key] THEN "faq"
  ELSE IF WhyChoseBodyTable[key] THEN "why_body"
  ELSE "remaining"

\* Rule without the technical-field test of lines 139-142
Rule_NoTechnicalTest(key, value, data, processed) ==
  IF Falsy(value) \/ value = "" \/ key \in processed THEN "skip"
  ELSE IF key \in Range(table1_fields) /\ key \notin processed THEN "table1"
  ELSE IF key \in {"SKU", "Scientific Name / mix %"} THEN "identifier"
  ELSE IF DescriptionTable[key] THEN "description"
  ELSE IF WhyChoseTitleTable[key] THEN "why_title"
  ELSE IF /\ key \in Range(table2_fields) /\ key \notin processed
          /\ why_chose_done(data, processed) THEN "table2"
  ELSE IF PlantingStepTable[key] THEN "planting"
  ELSE IF FaqTable[key] THEN "faq"
  ELSE IF WhyChoseBodyTable[key] THEN "why_body"
  ELSE "remaining"

\* Rule without the Why-chose body test of lines 256-258
Rule_NoWhyBodyTest(key, value, data, processed) ==
  IF Falsy(value) \/ value = "" \/ key \in processed THEN "skip"
  ELSE IF format_field_name(key).none THEN "technical"
  ELSE IF key \in Range(table1_fields) /\ key \notin processed THEN "table1"
  ELSE IF key \in {"SKU", "Scientific Name / mix %"} THEN "identifier"
  ELSE IF DescriptionTable[key] THEN "description"
  ELSE IF WhyChoseTitleTable[key] THEN "why_title"
  ELSE IF /\ key \in Range(table2_fields) /\ key \notin processed
          /\ why_chose_done(data, processed) THEN "table2"
  ELSE IF PlantingStepTable[key] THEN "planting"
  ELSE IF FaqTable[key] THEN "faq"
  ELSE "remaining"

\* Rule without the empty-value test of line 136
Rule_NoEmptyTest(key, value, data, processed) ==
  IF key \in processed THEN "skip"
  ELSE IF format_field_name(key).none THEN "technical"
  ELSE IF key \in Range(table1_fields) /\ key \notin processed THEN "table1"
  ELSE IF key \in {"SKU", "Scientific Name / mix %"} THEN "identifier"
  ELSE IF DescriptionTable[key] THEN "description"
  ELSE IF WhyChoseTitleTable[key] THEN "why_title"
  ELSE IF /\ key \in Range(table2_fields) /\ key \notin processed
          /\ why_chose_done(data, processed) THEN "table2"
  ELSE IF PlantingStepTable[key] THEN "planting"
  ELSE IF FaqTable[key] THEN "faq"
  ELSE IF WhyChoseBodyTable[key] THEN "why_body"
  ELSE "remaining"

Rule(key, value, data, processed) ==
  IF Falsy(value) \/ value = "" \/ key \in processed THEN "skip"
  ELSE IF format_field_name(key).none THEN "technical"
  ELSE IF key \in Range(table1_fields) /\ key \notin processed THEN "table1"
  ELSE IF key \in {"SKU", "Scientific Name / mix %"} THEN "identifier"
  ELSE IF DescriptionTable[key] THEN "description"
  ELSE IF WhyChoseTitleTable[key] THEN "why_title"
  ELSE IF /\ key \in Range(table2_fields) /\ key \notin processed
          /\ why_chose_done(data, processed) THEN "table2"
  ELSE IF PlantingStepTable[key] THEN "planting"
  ELSE IF FaqTable[key] THEN "faq"
  ELSE IF WhyChoseBodyTable[key] THEN "why_body"
  ELSE "remaining"

InLoop == pc = "loop" /\ idx <= Len(product_data)
CurKey == product_data[idx].key
CurValue == product_data[idx].value
CurRule == Rule(CurKey, CurValue, product_data, processed_fields)

\* create_product_document going on with the Document and the set of the call before
BeginDocument_KeepsState ==
  /\ pc = "start"
  /\ doc' = Append(doc, TitleInstr(IF Has(product_data, "Title") THEN "Title" ELSE NoKey,
                                   GetOr(product_data, "Title", "Unknown Product")))
  /\ processed_fields' = processed_fields \cup {"Title"}
  /\ idx' = 1
  /\ pc' = "loop"
  /\ UNCHANGED <<product_data, envVars>>

\* lines 87-132: new document, main heading, processed_fields = set(['Title'])
BeginDocument ==
  /\ pc = "start"
  /\ doc' = <<TitleInstr(IF Has(product_data, "Title") THEN "Title" ELSE NoKey,
                          GetOr(product_data, "Title", "Unknown Product"))>>
  /\ processed_fields' = {"Title"}
  /\ idx' = 1
  /\ pc' = "loop"
  /\ UNCHANGED <<product_data, envVars>>

\* lines 136-137
SkipField ==
  /\ InLoop /\ CurRule = "skip"
  /\ idx' = idx + 1
  /\ UNCHANGED <<product_data, pc, processed_fields, doc, envVars>>

\* lines 139-142
SkipTechnical ==
  /\ InLoop /\ CurRule = "technical"
  /\ processed_fields' = processed_fields \cup {CurKey}
  /\ idx' = idx + 1
  /\ UNCHANGED <<product_data, pc, doc, envVars>>

\* lines 145-154
GrowingConditions ==
  /\ InLoop /\ CurRule = "table1"
  /\ LET table1_data == TableData(table1_fields, product_data)
     IN  /\ processed_fields' =
              processed_fields \cup {table1_data[i].key : i \in 1..Len(table1_data)}
         /\ doc' = IF table1_data # <<>>
                   THEN Append(doc, TableInstr("Growing Conditions", table1_data))
                   ELSE doc
  /\ idx' = idx + 1
  /\ UNCHANGED <<product_data, pc, envVars>>

\* lines 157-171
Identifier ==
  /\ InLoop /\ CurRule = "identifier"
  /\ doc' = Append(doc, HeadingOrLabeled(CurKey, CurValue))
  /\ processed_fields' = processed_fields \cup {CurKey}
  /\ idx' = idx + 1
  /\ UNCHANGED <<product_data, pc, envVars>>

\* lines 174-183
Description ==
  /\ InLoop /\ CurRule = "description"
  /\ doc' = Append(doc, LabeledInstr(CurKey, CurValue))
  /\ processed_fields' = processed_fields \cup {CurKey}
  /\ idx' = idx + 1
  /\ UNCHANGED <<product_data, pc, envVars>>

\* the pairing of lines 186-204 leaving out a body that is already processed
WhyChoseTitle_SkipsProcessedBody ==
  /\ InLoop /\ CurRule = "why_title"
  /\ LET content_key == content_key_of(CurKey)
     IN  IF Has(product_data, content_key) /\ ~Falsy(Get(product_data, content_key))
            /\ content_key \notin processed_fields
         THEN /\ doc' = doc \o <<HeadingInstr(3, CurKey, CurValue),
                                 ParagraphInstr(content_key, Get(product_data, content_key))>>
              /\ processed_fields' = processed_fields \cup {CurKey, content_key}
         ELSE UNCHANGED <<doc, processed_fields>>
  /\ idx' = idx + 1
  /\ UNCHANGED <<product_data, pc, envVars>>

\* lines 186-204
WhyChoseTitle ==
  /\ InLoop /\ CurRule = "why_title"
  /\ LET content_key == content_key_of(CurKey)
     IN  IF Has(product_data, content_key) /\ ~Falsy(Get(product_data, content_key))
         THEN /\ doc' = doc \o <<HeadingInstr(3, CurKey, CurValue),
                                 ParagraphInstr(content_key, Get(product_data, content_key))>>
              /\ processed_fields' = processed_fields \cup {CurKey, content_key}
         ELSE UNCHANGED <<doc, processed_fields>>
  /\ idx' = idx + 1
  /\ UNCHANGED <<product_data, pc, envVars>>

\* lines 207-225, gate open
PlantCharacteristics ==
  /\ InLoop /\ CurRule = "table2"
  /\ LET table2_data == TableData(table2_fields, product_data)
     IN  /\ processed_fields' =
              processed_fields \cup {table2_data[i].key : i \in 1..Len(table2_data)}
         /\ doc' = IF table2_data # <<>>
                   THEN Append(doc, TableInstr("Plant Characteristics", table2_data))
                   ELSE doc
  /\ idx' = idx + 1
  /\ UNCHANGED <<product_data, pc, envVars>>

\* lines 228-240
PlantingGuide ==
  /\ InLoop /\ CurRule = "planting"
  /\ doc' = Append(doc, SteppedInstr(NumeralTable[CurKey], CurKey, CurValue))
  /\ processed_fields' = processed_fields \cup {CurKey}
  /\ idx' = idx + 1
  /\ UNCHANGED <<product_data, pc, envVars>>

\* lines 243-253
Faq ==
  /\ InLoop /\ CurRule = "faq"
  /\ doc' = Append(doc, FaqInstr(NumeralTable[CurKey], CurKey, CurValue))
  /\ processed_fields' = processed_fields \cup {CurKey}
  /\ idx' = idx + 1
  /\ UNCHANGED <<product_data, pc, envVars>>

\* lines 256-258
WhyChoseBody ==
  /\ InLoop /\ CurRule = "why_body"
  /\ processed_fields' = processed_fields \cup {CurKey}
  /\ idx' = idx + 1
  /\ UNCHANGED <<product_data, pc, doc, envVars>>

\* lines 261-274
Remaining ==
  /\ InLoop /\ CurRule = "remaining"
  /\ IF CurKey \notin processed_fields
     THEN /\ doc' = Append(doc, HeadingOrLabeled(CurKey, CurValue))
          /\ processed_fields' = processed_fields \cup {CurKey}
     ELSE UNCHANGED <<doc, processed_fields>>
  /\ idx' = idx + 1
  /\ UNCHANGED <<product_data, pc, envVars>>

\* line 276
ReturnDocument ==
  /\ pc = "loop" /\ idx > Len(product_data)
  /\ pc' = "done"
  /\ UNCHANGED <<product_data, idx, processed_fields, doc, envVars>>

(***************************************************************************)
(* The records the builder is run on.                                      *)
(***************************************************************************)
Values == {"", "text"}

\* Free-order family: any order of any of these fields, any mix of empty values.
SmallNames ==
  {"Soil pH", "Color", "Water",
   "Why chose this product Title 1", "Why chose this product 1",
   "Why chose this product Title 2", "Why chose this product 2"}

Injective(f) == \A i, j \in DOMAIN f : f[i] = f[j] => i = j

\* product_data is one of the free-order records
IsSmallRecord(data) ==
  \E n \in 0..MaxFields :
    \E ks \in [1..n -> SmallNames] :
      \E vs \in [1..n -> Values] :
        /\ Injective(ks)
        /\ data = [i \in 1..n |-> [key |-> ks[i], value |-> vs[i]]]

\* Prompt-order family: the requested layout with a few fields dropped or emptied.
RECURSIVE Altered(_, _, _)
Altered(fields, dropped, emptied) ==
  IF fields = <<>> THEN <<>>
  ELSE (IF Head(fields) \in dropped THEN <<>>
        ELSE <<[key |-> Head(fields),
                value |-> IF Head(fields) \in emptied THEN "" ELSE "text"]>>)
       \o Altered(Tail(fields), dropped, emptied)

\* the subsets of S with at most n elements
RECURSIVE SubsetsUpTo(_, _)
SubsetsUpTo(S, n) ==
  IF n = 0 THEN {{}}
  ELSE LET smaller == SubsetsUpTo(S, n - 1)
       IN  smaller \cup {s \cup {x} : s \in smaller, x \in S}

AlterSets == SubsetsUpTo(Range(PromptFields), MaxAltered)

PromptRecords ==
  {Altered(PromptFields, de[1], de[2]) :
     de \in {x \in AlterSets \X AlterSets :
               x[1] \cap x[2] = {} /\ Cardinality(x[1] \cup x[2]) <= MaxAltered}}

\* no add_new_product call has been made
NoCall == [title |-> <<>>, key |-> "", r |-> [ok |-> FALSE, data |-> <<>>]]

\* the store side at rest
StoreIdle ==
  /\ products_file = [exists |-> FALSE, products |-> <<>>]
  /\ add_result = "none"
  /\ service_calls = 0
  /\ call = NoCall

\* filename before clean_filename has returned; "/" is in no file name
NoFile == <<"/">>

\* no file name has been made
FileIdle ==
  /\ name = <<>>
  /\ filename = NoFile

\* a local variable that is not bound yet

\* the locals of product_requester's main before it runs
NoLocals ==
  [api_key |-> "", title |-> <<"<unbound>">>, product_type |-> <<"<unbound>">>,
   scientific_name |-> <<"<unbound>">>, mix_components |-> <<<<"<unbound>">>>>,
   confirm |-> <<"<unbound>">>, success |-> "unbound",
   generate_doc |-> <<"<unbound>">>]

\* product_requester's main has not been started
UiIdle ==
  /\ ui_pc = "idle"
  /\ locals = NoLocals
  /\ ui_event = {}

\* no response has been received
NotReturned == [done |-> FALSE, ok |-> FALSE, data |-> <<>>]

ParseIdle ==
  /\ response_text = <<>>
  /\ returned = NotReturned

\* generate_product_docs has not been started
MainIdle ==
  /\ products = <<>>
  /\ mode = "none"
  /\ enum_i = 0
  /\ output_dir = {}
  /\ exit_status = "none"
  /\ built = <<>>

InitDoc ==
  /\ \/ IsSmallRecord(product_data)
     \/ product_data \in PromptRecords
  /\ pc = "start"
  /\ idx = 1
  /\ processed_fields = {}
  /\ doc = <<>>
  /\ StoreIdle
  /\ UiIdle
  /\ ParseIdle
  /\ FileIdle
  /\ MainIdle

\* Longest record of the mixed family.
MaxMixed == 3

\* Mixed family: two technical fields and one field for each other rule of
\* the chain, in any order; the technical fields with any value.
MixedNames ==
  {"Cost", "price/lb", "Soil pH", "SKU",
   "What is the? ( SEO Description 100-200 words) ",
   "Why chose this product Title 1", "Why chose this product 1",
   "Color", "Planting Guide Step 1", "FAQ 1"}

MixedValues(k) == IF k \in Range(skip_fields) THEN Values ELSE {"text"}

\* product_data is one of the mixed records
IsMixedRecord(data) ==
  \E n \in 0..MaxMixed :
    \E ks \in [1..n -> MixedNames] :
      \E vs \in [1..n -> Values] :
        /\ Injective(ks)
        /\ \A i \in 1..n : vs[i] \in MixedValues(ks[i])
        /\ data = [i \in 1..n |-> [key |-> ks[i], value |-> vs[i]]]

InitMixed ==
  /\ IsMixedRecord(product_data)
  /\ pc = "start"
  /\ idx = 1
  /\ processed_fields = {}
  /\ doc = <<>>
  /\ StoreIdle
  /\ UiIdle
  /\ ParseIdle
  /\ FileIdle
  /\ MainIdle

Init == InitDoc

Next ==
  \/ BeginDocument
  \/ SkipField
  \/ SkipTechnical
  \/ GrowingConditions
  \/ Identifier
  \/ Description
  \/ WhyChoseTitle
  \/ PlantCharacteristics
  \/ PlantingGuide
  \/ Faq
  \/ WhyChoseBody
  \/ Remaining
  \/ ReturnDocument

Spec == Init /\ [][Next]_vars

SpecMixed == InitMixed /\ [][Next]_vars

(***************************************************************************)
(* product_requester.py: the product store and add_new_product.            *)
(* A stored record is a sequence of [key, value] entries whose Title value *)
(* is spelled as a tuple of characters, so that lower() acts on it.        *)
(***************************************************************************)
Titles == {<<"A">>, <<"a">>, <<"B">>, <<"A", "b">>}

\* the title argument of add_new_product
TitleArgs == Titles \cup {<<"a", "B">>}

StoredRecord(t) == <<[key |-> "Title", value |-> t], [key |-> "SKU", value |-> <<"W">>]>>
UntitledRecord == <<[key |-> "SKU", value |-> <<"W">>]>>

\* the api_key parameter and the OPENAI_API_KEY environment variable ("" when unset)
ApiKeys == {"", "sk-key"}

\* api_key after lines 174-175
effective_key(api_key, env_key) == IF api_key = "" THEN env_key ELSE api_key

\* the keys add_new_product can end up with, lines 174-175
EffectiveKeys == {effective_key(api_key, env_key) : api_key \in ApiKeys, env_key \in ApiKeys}

\* What get_product_info_from_openai can return: None (the request or the parse
\* failed), or the parsed object, whose content the service decides.
ServiceResults ==
  {[ok |-> FALSE, data |-> <<>>]}
    \cup {[ok |-> TRUE, data |-> d] :
            d \in {<<>>, UntitledRecord} \cup {StoredRecord(t) : t \in Titles}}

\* get_product_info_from_openai without the falsy test of line 192
NoProductData_NeverTested(r) == FALSE

\* not product_data
NoProductData(r) == ~r.ok \/ r.data = <<>>

\* the requests get_product_info_from_openai sends: a second one after a failure
service_requests_Retry(r) == IF r.ok THEN 1 ELSE 2

\* the requests get_product_info_from_openai sends: line 133 runs once, in no loop
service_requests(r) == 1

\* load_existing_products
load_existing_products == IF products_file.exists THEN products_file.products ELSE <<>>

\* save_products dumping the new record instead of the list
save_products_OnlyNew(records) ==
  [exists |-> TRUE, products |-> <<records[Len(records)]>>]

\* save_products
save_products(records) == [exists |-> TRUE, products |-> records]

\* the duplicate test without .lower()
title_exists_CaseSensitive(existing_products, title) ==
  \E i \in 1..Len(existing_products) :
     GetOr(existing_products[i], "Title", <<>>) = title

\* existing.get('Title', '').lower() == title.lower() for some existing record
title_exists(existing_products, title) ==
  \E i \in 1..Len(existing_products) :
     Lower(GetOr(existing_products[i], "Title", <<>>)) = Lower(title)

\* lines 174-179: no API key in the parameter or the environment
AddNoApiKey ==
  \E title \in TitleArgs, key \in EffectiveKeys :
    /\ key = ""
    /\ add_result' = "False"
    /\ service_calls' = 0
    /\ call' = [title |-> title, key |-> "", r |-> NoCall.r]
    /\ UNCHANGED <<products_file, docVars, fileVars, mainVars, parseVars, ui_pc, locals, ui_event>>

\* lines 190-194: the service gave no product data
AddGenerationFailed ==
  \E title \in TitleArgs, key \in EffectiveKeys, r \in ServiceResults :
    /\ key # ""
    /\ NoProductData(r)
    /\ add_result' = "False"
    /\ service_calls' = service_requests(r)
    /\ call' = [title |-> title, key |-> key, r |-> r]
    /\ UNCHANGED <<products_file, docVars, fileVars, mainVars, parseVars, ui_pc, locals, ui_event>>

\* lines 196-203: the title is already in the store
AddDuplicate ==
  \E title \in TitleArgs, key \in EffectiveKeys, r \in ServiceResults :
    /\ key # ""
    /\ ~NoProductData(r)
    /\ title_exists(load_existing_products, title)
    /\ add_result' = "False"
    /\ service_calls' = service_requests(r)
    /\ call' = [title |-> title, key |-> key, r |-> r]
    /\ UNCHANGED <<products_file, docVars, fileVars, mainVars, parseVars, ui_pc, locals, ui_event>>

\* lines 205-214: append and save
AddProduct ==
  \E title \in TitleArgs, key \in EffectiveKeys, r \in ServiceResults :
    /\ key # ""
    /\ ~NoProductData(r)
    /\ ~title_exists(load_existing_products, title)
    /\ Len(load_existing_products) < MaxProducts
    /\ products_file' = save_products(Append(load_existing_products, r.data))
    /\ add_result' = "True"
    /\ service_calls' = service_requests(r)
    /\ call' = [title |-> title, key |-> key, r |-> r]
    /\ UNCHANGED <<docVars, fileVars, mainVars, parseVars, ui_pc, locals, ui_event>>

\* The stores the program starts from: no file, or a file of records with
\* pairwise distinct Titles.
InitialStores ==
  {[exists |-> FALSE, products |-> <<>>], [exists |-> TRUE, products |-> <<>>]}
    \cup {[exists |-> TRUE, products |-> <<StoredRecord(t)>>] : t \in Titles}
    \cup {[exists |-> TRUE, products |-> <<StoredRecord(tu[1]), StoredRecord(tu[2])>>] :
            tu \in {x \in Titles \X Titles : Lower(x[1]) # Lower(x[2])}}

InitStore ==
  /\ products_file \in InitialStores
  /\ add_result = "none"
  /\ service_calls = 0
  /\ call = NoCall
  /\ FileIdle
  /\ MainIdle
  /\ ParseIdle
  /\ UiIdle
  /\ product_data = <<>>
  /\ pc = "idle"
  /\ idx = 1
  /\ processed_fields = {}
  /\ doc = <<>>

NextStore ==
  \/ AddNoApiKey
  \/ AddGenerationFailed
  \/ AddDuplicate
  \/ AddProduct

SpecStore == InitStore /\ [][NextStore]_vars

(***************************************************************************)
(* File names: clean_filename (generate_product_docs.py, lines 18-23).     *)
(***************************************************************************)
\* Longest name given to clean_filename.
MaxNameLen == 3

Digits == {"0", "1", "2", "3", "4", "5", "6", "7", "8", "9"}

\* \w
WordChars == Range(UpperLetters) \cup Range(LowerLetters) \cup Digits \cup {"_"}

\* \s
Whitespace == {" ", "\t", "\n"}

\* [-\s]
Separators == Whitespace \cup {"-"}

\* re.sub(r'[^\w\s-]', '', name)
RemoveSpecial(s) == SelectSeq(s, LAMBDA c : c \in WordChars \cup Separators)

\* s without its leading characters of the set
RECURSIVE DropLeading(_, _)
DropLeading(s, set) ==
  IF s # <<>> /\ Head(s) \in set THEN DropLeading(Tail(s), set) ELSE s

\* s without its trailing characters of the set
RECURSIVE DropTrailing(_, _)
DropTrailing(s, set) ==
  IF s # <<>> /\ s[Len(s)] \in set
  THEN DropTrailing(SubSeq(s, 1, Len(s) - 1), set)
  ELSE s

\* re.sub(r'[-\s]+', '_', cleaned): every maximal run becomes one underscore
RECURSIVE CollapseRuns(_)
CollapseRuns(s) ==
  IF s = <<>> THEN <<>>
  ELSE IF Head(s) \in Separators
       THEN <<"_">> \o CollapseRuns(DropLeading(s, Separators))
       ELSE <<Head(s)>> \o CollapseRuns(Tail(s))

\* cleaned.strip('_')
Strip(s, set) == DropTrailing(DropLeading(s, set), set)

\* clean_filename that returns without the strip
clean_filename_NoStrip(s) == CollapseRuns(RemoveSpecial(s))

\* clean_filename
clean_filename(s) == Strip(CollapseRuns(RemoveSpecial(s)), {"_"})

\* the characters the names are spelled with: a letter of each case, a digit,
\* the underscore, two kinds of whitespace, the hyphen and a special character
NameAlphabet == {"A", "b", "7", "_", " ", "\t", "-", "("}

\* the names of length n
RECURSIVE NamesOfLen(_)
NamesOfLen(n) ==
  IF n = 0 THEN {<<>>}
  ELSE {Append(s, c) : s \in NamesOfLen(n - 1), c \in NameAlphabet}

Names ==
  UNION {NamesOfLen(n) : n \in 0..MaxNameLen}
    \cup {Chars("Blue Flax (Linum lewisii)"), Chars("A b"), Chars("A-b")}

\* the document builder at rest
DocIdle ==
  /\ product_data = <<>>
  /\ pc = "idle"
  /\ idx = 1
  /\ processed_fields = {}
  /\ doc = <<>>

\* filename = clean_filename(product_name)
CleanFilename ==
  /\ filename = NoFile
  /\ filename' = clean_filename(name)
  /\ UNCHANGED <<name, docVars, storeVars, mainVars, parseVars, ui_pc, locals, ui_event>>

InitFilename ==
  /\ name \in Names
  /\ filename = NoFile
  /\ DocIdle
  /\ StoreIdle
  /\ UiIdle
  /\ ParseIdle
  /\ MainIdle

NextFilename == CleanFilename

SpecFilename == InitFilename /\ [][NextFilename]_vars

(***************************************************************************)
(* The runs of generate_product_docs.py: main (lines 278-304) and the      *)
(* __main__ block (lines 306-342).                                         *)
(***************************************************************************)
\* Longest collection of a run.
MaxBatch == 3

F(k, v) == [key |-> k, value |-> v]

\* records of the collection: between them they meet every rule of the chain,
\* two Titles give the same file name, one record has no Title
BatchRecords ==
  {<<F("Title", "A b"), F("SKU", "text"), F("Cost", "text"), F("Soil pH", "text"),
     F("What is the? ( SEO Description 100-200 words) ", "text"),
     F("Why chose this product Title 1", "text"), F("Why chose this product 1", "text"),
     F("Color", "text"), F("Planting Guide Step 1", "text"), F("FAQ 1", "text")>>,
   <<F("Title", "A-b"), F("Why chose this product 2", "text"), F("Water", ""),
     F("Why chose this product Title 3", "text"), F("Uses", "text")>>,
   <<F("Title", "a B"), F("SKU", "text")>>,
   <<F("SKU", "text"), F("Color", "text")>>}

\* the collections of n records
RECURSIVE BatchesOfLen(_)
BatchesOfLen(n) ==
  IF n = 0 THEN {<<>>}
  ELSE {Append(s, r) : s \in BatchesOfLen(n - 1), r \in BatchRecords}

Batches == UNION {BatchesOfLen(n) : n \in 0..MaxBatch}

\* sys.argv[2]
ProductArgs == {"a B", "C"}

\* the names the module has bound when the __main__ block runs: its imports,
\* products, its functions and sys; main's "import os" binds os inside main only
BoundNames ==
  {"json", "re", "Document", "Inches", "Pt", "WD_ALIGN_PARAGRAPH", "OxmlElement",
   "qn", "products", "clean_filename", "add_formatted_text", "is_title_field",
   "format_field_name", "add_table", "create_product_document", "main", "sys"}

DigitChars == <<"0", "1", "2", "3", "4", "5", "6", "7", "8", "9">>

\* str(n)
RECURSIVE Str(_)
Str(n) ==
  IF n < 10 THEN <<DigitChars[n + 1]>>
  ELSE Str(n \div 10) \o <<DigitChars[(n % 10) + 1]>>

\* product.get('Title', f'Product_{i}')
product_name_of(product, n) ==
  IF Has(product, "Title") THEN Chars(Get(product, "Title"))
  ELSE Chars("Product_") \o Str(n)

\* f"{filename}.docx"
DocxName(f) == f \o <<".", "d", "o", "c", "x">>

\* doc.save(output_path): a file of that name is replaced
Save(dir, f, n, d) ==
  {e \in dir : e.filename # f} \cup {[filename |-> f, index |-> n, doc |-> d]}

\* main, lines 278-286
RunBatch ==
  /\ mode = "none"
  /\ mode' = "batch"
  /\ enum_i' = 1
  /\ UNCHANGED <<products, output_dir, exit_status, built, docVars, storeVars, fileVars, parseVars, ui_pc, locals, ui_event>>

\* main, lines 288-297: the next record is handed to create_product_document
MainNext ==
  /\ mode = "batch"
  /\ pc = "idle"
  /\ enum_i <= Len(products)
  /\ name' = product_name_of(products[enum_i], enum_i)
  /\ filename' = clean_filename(name')
  /\ product_data' = products[enum_i]
  /\ pc' = "start"
  /\ UNCHANGED <<idx, processed_fields, doc, storeVars, mainVars, parseVars, ui_pc, locals, ui_event>>

\* main, lines 297-302: the returned document is saved
MainSave ==
  /\ mode = "batch"
  /\ pc = "done"
  /\ output_dir' = Save(output_dir, DocxName(filename), enum_i, doc)
  /\ built' = Append(built, [doc |-> doc, processed_fields |-> processed_fields])
  /\ enum_i' = enum_i + 1
  /\ pc' = "idle"
  /\ UNCHANGED <<product_data, idx, processed_fields, doc, products, mode,
                 exit_status, storeVars, fileVars, parseVars, ui_pc, locals, ui_event>>

\* main, line 304, and the end of the program
MainDone ==
  /\ mode = "batch"
  /\ pc = "idle"
  /\ enum_i > Len(products)
  /\ exit_status = "none"
  /\ exit_status' = "0"
  /\ UNCHANGED <<products, mode, enum_i, output_dir, built, docVars, storeVars, fileVars, parseVars, ui_pc, locals, ui_event>>

\* __main__ with --product, lines 310-314: load_products is bound nowhere, the
\* call raises NameError and the program ends with the traceback and status 1
RunProduct ==
  \E arg \in ProductArgs :
    /\ mode = "none"
    /\ "load_products" \notin BoundNames
    /\ name' = Chars(arg)
    /\ mode' = "product"
    /\ exit_status' = "1"
    /\ UNCHANGED <<filename, products, enum_i, output_dir, built, docVars, storeVars, parseVars, ui_pc, locals, ui_event>>

InitMain ==
  /\ products \in Batches
  /\ mode = "none"
  /\ enum_i = 0
  /\ output_dir = {}
  /\ exit_status = "none"
  /\ built = <<>>
  /\ DocIdle
  /\ StoreIdle
  /\ UiIdle
  /\ ParseIdle
  /\ FileIdle

NextMain ==
  \/ RunBatch
  \/ RunProduct
  \/ MainNext
  \/ BeginDocument
  \/ SkipField
  \/ SkipTechnical
  \/ GrowingConditions
  \/ Identifier
  \/ Description
  \/ WhyChoseTitle
  \/ PlantCharacteristics
  \/ PlantingGuide
  \/ Faq
  \/ WhyChoseBody
  \/ Remaining
  \/ ReturnDocument
  \/ MainSave
  \/ MainDone

SpecMain == InitMain /\ [][NextMain]_vars

(***************************************************************************)
(* The response of the service: get_product_info_from_openai               *)
(* (product_requester.py, lines 149-168).                                  *)
(***************************************************************************)
\* Longest response, in tokens.
MaxResponseLen == 5

\* The response text as lexical tokens: the braces, "k" for a key with its
\* colon, "v" for a scalar value, the comma, and "x" for any other text.
ResponseTokens == {"{", "}", "k", "v", ",", "x"}

\* The JSON grammar on these tokens: the position after the value (after the
\* members) that starts at position n of s, 0 when none starts there.
RECURSIVE ValueEnd(_, _), MembersEnd(_, _)
ValueEnd(s, n) ==
  IF n > Len(s) THEN 0
  ELSE IF s[n] = "v" THEN n + 1
  ELSE IF s[n] = "{"
       THEN IF n + 1 <= Len(s) /\ s[n + 1] = "}" THEN n + 2
            ELSE LET e == MembersEnd(s, n + 1)
                 IN  IF e # 0 /\ e <= Len(s) /\ s[e] = "}" THEN e + 1 ELSE 0
       ELSE 0

MembersEnd(s, n) ==
  IF n > Len(s) \/ s[n] # "k" THEN 0
  ELSE LET e == ValueEnd(s, n + 1)
       IN  IF e = 0 THEN 0
           ELSE IF e <= Len(s) /\ s[e] = "," THEN MembersEnd(s, e + 1)
           ELSE e

\* json.loads: ok is FALSE where it raises JSONDecodeError
json_loads(s) == [ok |-> ValueEnd(s, 1) = Len(s) + 1, data |-> s]

Positions(s, c) == {n \in 1..Len(s) : s[n] = c}
Min(set) == CHOOSE n \in set : \A m \in set : n <= m
Max(set) == CHOOSE n \in set : \A m \in set : m <= n

\* re.search(r'\{.*\}', response_text, re.DOTALL): the leftmost match starts at
\* the first "{" and, .* being greedy, ends at the last "}"
re_search(s) ==
  IF Positions(s, "{") = {} \/ Positions(s, "}") = {}
       \/ Max(Positions(s, "}")) < Min(Positions(s, "{"))
  THEN [found |-> FALSE, group |-> <<>>]
  ELSE [found |-> TRUE,
        group |-> SubSeq(s, Min(Positions(s, "{")), Max(Positions(s, "}")))]

\* return None
None == [done |-> TRUE, ok |-> FALSE, data |-> <<>>]

\* return product_data
Returns(d) == [done |-> TRUE, ok |-> TRUE, data |-> d]

\* lines 152-168: what the function returns for a response text
get_product_info_from_openai(text) ==
  IF json_loads(text).ok THEN Returns(json_loads(text).data)
  ELSE IF re_search(text).found
       THEN IF json_loads(re_search(text).group).ok
            THEN Returns(json_loads(re_search(text).group).data)
            ELSE None
       ELSE None

\* text is a response of at most MaxResponseLen tokens
IsResponse(text) ==
  \E n \in 0..MaxResponseLen :
    \E ts \in [1..n -> ResponseTokens] :
      text = [i \in 1..n |-> ts[i]]

\* lines 149-168
ParseResponse ==
  /\ ~returned.done
  /\ returned' = get_product_info_from_openai(response_text)
  /\ UNCHANGED <<response_text, docVars, storeVars, fileVars, mainVars, ui_pc, locals, ui_event>>

InitParse ==
  /\ IsResponse(response_text)
  /\ returned = NotReturned
  /\ DocIdle
  /\ StoreIdle
  /\ UiIdle
  /\ FileIdle
  /\ MainIdle

NextParse == ParseResponse

SpecParse == InitParse /\ [][NextParse]_vars

(***************************************************************************)
(* The interactive main of product_requester.py (lines 216-332): one step  *)
(* for each input() it waits at.                                           *)
(***************************************************************************)
\* Most components typed for one mix.
MaxComponents == 2

\* what is typed at each input() of main, and what the service gives
\* during the session
Inputs ==
  [api_key         |-> {<<>>, <<" ">>, Chars("sk-key")},
   title           |-> {<<>>, <<" ">>, <<"q">>, <<" ", "Q", "U", "I", "T">>,
                        <<"e", "x", "i", "t">>, <<"A">>, <<"a", " ">>},
   product_type    |-> {<<"1">>, <<" ", "2">>, <<"3">>, <<>>},
   scientific_name |-> {<<>>, <<" ">>, <<"L">>},
   component       |-> {<<>>, <<"c">>},
   confirm         |-> {<<"y">>, <<"Y", "e", "s">>, <<"n">>, <<>>},
   product_data    |-> {[ok |-> FALSE, data |-> <<>>],
                        [ok |-> TRUE, data |-> StoredRecord(<<"A">>)]}]

\* ['quit', 'exit', 'q']
QuitWords == {<<"q", "u", "i", "t">>, <<"e", "x", "i", "t">>, <<"q">>}

\* ['y', 'yes']
YesWords == {<<"y">>, <<"y", "e", "s">>}

\* add_new_product(title, ..., api_key), lines 170-214, for the service result r
add_new_product(title, key, r) ==
  /\ call' = [title |-> title, key |-> key, r |-> IF key = "" THEN NoCall.r ELSE r]
  /\ service_calls' = IF key = "" THEN 0 ELSE service_requests(r)
  /\ IF key = "" \/ NoProductData(r) \/ title_exists(load_existing_products, title)
     THEN /\ add_result' = "False"
          /\ products_file' = products_file
     ELSE /\ add_result' = "True"
          /\ products_file' = save_products(Append(load_existing_products, r.data))

\* the confirmation prompt with the answer ignored
UiConfirm_AnswerIgnored ==
  \E typed \in Inputs.confirm, r \in Inputs.product_data :
    /\ ui_pc = "confirm"
    /\ add_new_product(locals.title, locals.api_key, r)
    /\ locals' = [locals EXCEPT !.confirm = Lower(Strip(typed, Whitespace)),
                                !.success = add_result']
    /\ ui_pc' = IF add_result' = "True" THEN "generate" ELSE "title"
    /\ ui_event' = {"add_new_product"}
    /\ UNCHANGED <<docVars, fileVars, mainVars, parseVars>>

\* lines 216-232: the API key from the environment, or typed
UiStart ==
  \E env_key \in ApiKeys, typed \in Inputs.api_key :
    /\ ui_pc = "idle"
    /\ locals' = [locals EXCEPT !.api_key =
                    IF env_key # "" THEN env_key
                    ELSE CHOOSE s \in DOMAIN CharTable :
                           CharTable[s] = Strip(typed, Whitespace)]
    /\ ui_pc' = IF locals'.api_key = "" THEN "done" ELSE "title"
    /\ ui_event' = {}
    /\ UNCHANGED <<docVars, storeVars, fileVars, mainVars, parseVars>>

\* lines 234-244: the title prompt
UiTitle ==
  \E typed \in Inputs.title :
    /\ ui_pc = "title"
    /\ locals' = [locals EXCEPT !.title = Strip(typed, Whitespace)]
    /\ ui_pc' = IF Lower(locals'.title) \in QuitWords THEN "done"
                ELSE IF locals'.title = <<>> THEN "title"
                ELSE "type"
    /\ ui_event' = {}
    /\ UNCHANGED <<docVars, storeVars, fileVars, mainVars, parseVars>>

\* lines 247-249, 254, 294 and 329-330: the type prompt
UiType ==
  \E typed \in Inputs.product_type :
    /\ ui_pc = "type"
    /\ locals' = [locals EXCEPT
                    !.product_type = Strip(typed, Whitespace),
                    !.mix_components =
                       IF Strip(typed, Whitespace) = <<"2">> THEN <<>> ELSE locals.mix_components]
    /\ ui_pc' = IF locals'.product_type = <<"2">> THEN "component"
                ELSE IF locals'.product_type = <<"1">> THEN "scientific_name"
                ELSE "title"
    /\ ui_event' = {}
    /\ UNCHANGED <<docVars, storeVars, fileVars, mainVars, parseVars>>

\* lines 255-263: one component prompt
UiComponent ==
  \E typed \in Inputs.component :
    /\ ui_pc = "component"
    /\ Strip(typed, Whitespace) # <<>> => Len(locals.mix_components) < MaxComponents
    /\ IF Strip(typed, Whitespace) = <<>>
       THEN /\ ui_pc' = IF locals.mix_components = <<>> THEN "title" ELSE "confirm"
            /\ locals' = locals
       ELSE /\ ui_pc' = "component"
            /\ locals' = [locals EXCEPT
                            !.mix_components = Append(locals.mix_components, Strip(typed, Whitespace))]
    /\ ui_event' = {}
    /\ UNCHANGED <<docVars, storeVars, fileVars, mainVars, parseVars>>

\* lines 296-300: the scientific name prompt
UiScientificName ==
  \E typed \in Inputs.scientific_name :
    /\ ui_pc = "scientific_name"
    /\ locals' = [locals EXCEPT !.scientific_name = Strip(typed, Whitespace)]
    /\ ui_pc' = IF locals'.scientific_name = <<>> THEN "title" ELSE "confirm"
    /\ ui_event' = {}
    /\ UNCHANGED <<docVars, storeVars, fileVars, mainVars, parseVars>>

\* lines 270-275 and 290-292, lines 305-310 and 325-327: the confirmation
\* prompt and, on y or yes, the call of add_new_product
UiConfirm ==
  \E typed \in Inputs.confirm, r \in Inputs.product_data :
    /\ ui_pc = "confirm"
    /\ IF Lower(Strip(typed, Whitespace)) \in YesWords
       THEN /\ add_new_product(locals.title, locals.api_key, r)
            /\ locals' = [locals EXCEPT !.confirm = Lower(Strip(typed, Whitespace)),
                                        !.success = add_result']
            /\ ui_pc' = IF add_result' = "True" THEN "generate" ELSE "title"
            /\ ui_event' = {"add_new_product"}
       ELSE /\ locals' = [locals EXCEPT !.confirm = Lower(Strip(typed, Whitespace))]
            /\ ui_pc' = "title"
            /\ ui_event' = {}
            /\ UNCHANGED storeVars
    /\ UNCHANGED <<docVars, fileVars, mainVars, parseVars>>

\* lines 277-288 and 312-323: the document prompt and, on y or yes, the
\* subprocess that runs generate_product_docs.py
UiGenerate ==
  \E typed \in Inputs.confirm :
    /\ ui_pc = "generate"
    /\ locals' = [locals EXCEPT !.generate_doc = Lower(Strip(typed, Whitespace))]
    /\ ui_event' = IF locals'.generate_doc \in YesWords THEN {"subprocess"} ELSE {}
    /\ ui_pc' = "title"
    /\ UNCHANGED <<docVars, storeVars, fileVars, mainVars, parseVars>>

InitUi ==
  /\ ui_pc = "idle"
  /\ locals = NoLocals
  /\ ui_event = {}
  /\ products_file \in {[exists |-> FALSE, products |-> <<>>],
                        [exists |-> TRUE, products |-> <<StoredRecord(<<"a">>)>>]}
  /\ add_result = "none"
  /\ service_calls = 0
  /\ call = NoCall
  /\ DocIdle
  /\ FileIdle
  /\ MainIdle
  /\ ParseIdle

NextUi ==
  \/ UiStart
  \/ UiTitle
  \/ UiType
  \/ UiComponent
  \/ UiScientificName
  \/ UiConfirm
  \/ UiGenerate

SpecUi == InitUi /\ [][NextUi]_vars

(***************************************************************************)
(* Properties of the document build.                                       *)
(***************************************************************************)
Done == pc = "done"

WhyTitleNames ==
  <<"Why chose this product Title 1", "Why chose this product Title 2",
    "Why chose this product Title 3", "Why chose this product Title 4",
    "Why chose this product Title 5">>
WhyBodyNames ==
  <<"Why chose this product 1", "Why chose this product 2",
    "Why chose this product 3", "Why chose this product 4",
    "Why chose this product 5">>

\* the record's value of a field
ValueOf(k) == product_data[CHOOSE i \in 1..Len(product_data) : product_data[i].key = k].value
Present(k) == \E i \in 1..Len(product_data) : product_data[i].key = k
NonEmpty(k) == Present(k) /\ ValueOf(k) # ""
PositionOf(k) == CHOOSE i \in 1..Len(product_data) : product_data[i].key = k

\* the places of the document that render field k: <<i, 0>> for instruction i
\* itself, <<i, j>> for row j of table i
Refs(k) ==
  {<<i, 0>> : i \in {x \in DOMAIN doc : doc[x].field = k}}
    \cup UNION {{<<i, j>> : j \in {y \in DOMAIN doc[i].rows : doc[i].rows[y].key = k}} :
                  i \in DOMAIN doc}

\* the positions of the tables with a given title
Tables(title) == {i \in DOMAIN doc : doc[i].kind = "Table" /\ doc[i].text = title}
RowPairs(instr) == {<<instr.rows[j].key, instr.rows[j].value>> : j \in DOMAIN instr.rows}
NonEmptyMembers(fields) == {k \in Range(fields) : NonEmpty(k)}
MemberPairs(fields) == {<<k, ValueOf(k)>> : k \in NonEmptyMembers(fields)}

\* some "Why chose this product Title i" of the record is not yet processed
GateClosed ==
  \E n \in 1..5 : Present(WhyTitleNames[n]) /\ WhyTitleNames[n] \notin processed_fields
\* the pass is at a non-empty Plant-Characteristics field
ReachesCharacteristic ==
  InLoop /\ CurKey \in Range(table2_fields) /\ CurValue # ""

\* C1: in every state of a build, no field of the record is rendered at more
\* than one place of the document (instruction or table row).
C1_RenderedAtMostOnce ==
  \A k \in Keys(product_data) : Cardinality(Refs(k)) <= 1

C3_GroupCompleteness ==
  (Done /\ NonEmptyMembers(table1_fields) # {}) =>
     /\ Cardinality(Tables("Growing Conditions")) = 1
     /\ \A t \in Tables("Growing Conditions") :
          /\ RowPairs(doc[t]) = MemberPairs(table1_fields)
          /\ Len(doc[t].rows) = Cardinality(NonEmptyMembers(table1_fields))
     /\ NonEmptyMembers(table1_fields) \subseteq processed_fields

\* a finished build with three or more non-empty group members, one member
\* empty, and the table in the document
C3_Witness ==
  /\ Done
  /\ Cardinality(NonEmptyMembers(table1_fields)) >= 3
  /\ \E k \in Range(table1_fields) : Present(k) /\ ValueOf(k) = ""
  /\ Tables("Growing Conditions") # {}

\* C4: when a finished build's record has all five "Why chose this product
\* Title i" fields and its Plant-Characteristics fields (one of them non-empty)
\* all come after them, the document holds the heading+paragraph pair of every
\* title with a non-empty body and a "Plant Characteristics" table after all of
\* those headings.
C4_GateOrdering ==
  (/\ Done
   /\ \A n \in 1..5 : Present(WhyTitleNames[n])
   /\ NonEmptyMembers(table2_fields) # {}
   /\ \A k \in Range(table2_fields), n \in 1..5 :
        Present(k) => PositionOf(k) > PositionOf(WhyTitleNames[n]))
  => /\ \A n \in 1..5 :
          (NonEmpty(WhyTitleNames[n]) /\ NonEmpty(WhyBodyNames[n])) =>
             \E i \in DOMAIN doc : doc[i].kind = "Heading" /\ doc[i].field = WhyTitleNames[n]
     /\ \E t \in Tables("Plant Characteristics") :
          \A i \in DOMAIN doc :
             (doc[i].kind = "Heading" /\ doc[i].field \in Range(WhyTitleNames)) => i < t

\* C5: a level-3 heading of "Why chose this product Title N" is always directly
\* followed by the paragraph of "Why chose this product N", a paragraph always
\* directly follows the heading of the title with its own numeral, and a finished
\* build holds that pair, both fields processed, for every N whose title and body
\* are non-empty.
C5_Pairing ==
  /\ \A i \in DOMAIN doc, n \in 1..5 :
       (doc[i].kind = "Heading" /\ doc[i].field = WhyTitleNames[n]) =>
          /\ doc[i] = HeadingInstr(3, WhyTitleNames[n], ValueOf(WhyTitleNames[n]))
          /\ i < Len(doc)
          /\ NonEmpty(WhyBodyNames[n])
          /\ doc[i + 1] = ParagraphInstr(WhyBodyNames[n], ValueOf(WhyBodyNames[n]))
  /\ \A i \in DOMAIN doc :
       doc[i].kind = "Paragraph" =>
          \E n \in 1..5 : /\ doc[i].field = WhyBodyNames[n]
                          /\ i > 1
                          /\ doc[i - 1].kind = "Heading"
                          /\ doc[i - 1].field = WhyTitleNames[n]
  /\ Done =>
       \A n \in 1..5 :
          (NonEmpty(WhyTitleNames[n]) /\ NonEmpty(WhyBodyNames[n])) =>
             /\ \E i \in DOMAIN doc :
                  doc[i].kind = "Heading" /\ doc[i].field = WhyTitleNames[n]
             /\ {WhyTitleNames[n], WhyBodyNames[n]} \subseteq processed_fields

\* a finished build that paired title 2 with body 2 while body 1 was in the
\* record without its title
C5_Witness ==
  /\ Done
  /\ \E i \in DOMAIN doc : doc[i].kind = "Paragraph" /\ doc[i].field = WhyBodyNames[2]
  /\ NonEmpty(WhyBodyNames[1]) /\ ~Present(WhyTitleNames[1])

\* C6: a step at a non-empty "Why chose this product Title N" field whose body
\* "Why chose this product N" is absent or empty emits nothing and adds the
\* title to processed_fields.
C6_TitleWithoutBody ==
  [][(/\ InLoop /\ CurValue # "" /\ CurKey \notin processed_fields
      /\ \E n \in 1..5 : CurKey = WhyTitleNames[n] /\ ~NonEmpty(WhyBodyNames[n]))
       => (doc' = doc /\ CurKey \in processed_fields')]_vars

\* C7: when a build is finished, every field with an empty value is in
\* processed_fields.
C7_EmptyValueMarked ==
  Done => \A i \in 1..Len(product_data) :
             product_data[i].value = "" => product_data[i].key \in processed_fields

\* C8 as stated: no field with an empty value is rendered anywhere in the document.
C8_EmptyValueOmitted ==
  \A k \in Keys(product_data) : ValueOf(k) = "" => Refs(k) = {}

\* C8 amended: no field other than Title with an empty value is rendered
\* anywhere in the document (the main heading is issued whatever Title holds).
C8_EmptyNonTitleOmitted ==
  \A k \in Keys(product_data) : (ValueOf(k) = "" /\ k # "Title") => Refs(k) = {}

\* a finished build whose record has an empty Plant-Characteristics field, an
\* empty body and the Plant Characteristics table in the document
C8_Witness ==
  /\ Done
  /\ \E k \in Range(table2_fields) : Present(k) /\ ValueOf(k) = ""
  /\ \E n \in 1..5 : Present(WhyBodyNames[n]) /\ ValueOf(WhyBodyNames[n]) = ""
  /\ Tables("Plant Characteristics") # {}

\* C9: in a record with no "Why chose this product Title i" field, the step at
\* the first non-empty Plant-Characteristics field appends the "Plant
\* Characteristics" table whose rows are exactly the present non-empty members,
\* and the steps at later members append nothing.
C9_GateWithNoTitles ==
  [][(ReachesCharacteristic /\ \A n \in 1..5 : ~Present(WhyTitleNames[n]))
       => IF \A j \in 1..(idx - 1) :
                ~(product_data[j].key \in Range(table2_fields) /\ product_data[j].value # "")
          THEN /\ Len(doc') = Len(doc) + 1
               /\ SubSeq(doc', 1, Len(doc)) = doc
               /\ doc'[Len(doc')].kind = "Table"
               /\ doc'[Len(doc')].text = "Plant Characteristics"
               /\ RowPairs(doc'[Len(doc')]) = MemberPairs(table2_fields)
               /\ Len(doc'[Len(doc')].rows) = Cardinality(NonEmptyMembers(table2_fields))
          ELSE doc' = doc]_vars

\* a finished build of a record without titles whose table has two rows and
\* comes after another instruction of the pass
C9_Witness ==
  /\ Done
  /\ \A n \in 1..5 : ~Present(WhyTitleNames[n])
  /\ \E t \in Tables("Plant Characteristics") : Len(doc[t].rows) >= 2 /\ t > 2

\* the technical exclusion set
TechnicalNames ==
  {"Main category", "Cost", "Landing Cost", "Bag size", "Bag Price", "price/lb"}

\* the pass has gone past field k
Reached(k) == pc \in {"loop", "done"} /\ Present(k) /\ idx > PositionOf(k)

\* C16: a field of the technical exclusion set is rendered by no instruction and
\* is a row of no table, whatever its value and its position in the record, and
\* is in processed_fields once the pass has reached it with a non-empty value.
C16_TechnicalExcluded ==
  \A k \in TechnicalNames :
     /\ Refs(k) = {}
     /\ (Reached(k) /\ NonEmpty(k)) => k \in processed_fields

\* a finished build of a record that holds, after its first field, a technical
\* field with a value and another one with an empty value, and rendered another field
C16_Witness ==
  /\ Done
  /\ Len(doc) >= 2
  /\ \E k, m \in TechnicalNames :
        /\ NonEmpty(k) /\ PositionOf(k) >= 2 /\ k \in processed_fields
        /\ Present(m) /\ ~NonEmpty(m)

\* C21: a non-empty "Why chose this product N" whose title is never processed
\* is rendered by no instruction and is in processed_fields at the end of the build.
C21_OrphanedBody ==
  Done =>
    \A n \in 1..5 :
       (NonEmpty(WhyBodyNames[n]) /\ WhyTitleNames[n] \notin processed_fields)
          => (Refs(WhyBodyNames[n]) = {} /\ WhyBodyNames[n] \in processed_fields)

\* a finished build of a record that holds a non-empty body after its empty
\* title, and another body without any title
C21_Witness ==
  /\ Done
  /\ \E n, m \in 1..5 :
        /\ n # m
        /\ NonEmpty(WhyBodyNames[n]) /\ Present(WhyTitleNames[n])
        /\ PositionOf(WhyTitleNames[n]) < PositionOf(WhyBodyNames[n])
        /\ WhyTitleNames[n] \notin processed_fields
        /\ WhyBodyNames[n] \in processed_fields
        /\ NonEmpty(WhyBodyNames[m]) /\ ~Present(WhyTitleNames[m])
        /\ WhyBodyNames[m] \in processed_fields

\* the instructions a step appends to the document
NewInstrs == {doc'[i] : i \in {x \in DOMAIN doc' : x > Len(doc)}}

\* C23: a step emits the Plant Characteristics table only when every "Why chose
\* this product Title i" (i in 1..5) of the record is in processed_fields, and
\* the heading of such a title is never emitted once the document holds the table.
C23_TableAfterTitles ==
  [][/\ (\E t \in NewInstrs : t.kind = "Table" /\ t.text = "Plant Characteristics")
          => ~GateClosed
     /\ (\E h \in NewInstrs : h.kind = "Heading" /\ h.field \in Range(WhyTitleNames))
          => Tables("Plant Characteristics") = {}]_vars

\* a finished build whose Plant Characteristics table comes after the pair of a
\* title of the record
C23_Witness ==
  /\ Done
  /\ \E t \in Tables("Plant Characteristics") :
       \E i \in 1..(t - 1) :
          /\ doc[i].kind = "Heading"
          /\ doc[i].field \in Range(WhyTitleNames)
          /\ doc[i].field \in processed_fields

\* record n's non-empty body comes before its non-empty title
BodyBeforeTitle(n) ==
  /\ NonEmpty(WhyTitleNames[n]) /\ NonEmpty(WhyBodyNames[n])
  /\ PositionOf(WhyBodyNames[n]) < PositionOf(WhyTitleNames[n])

\* the places of the next state's document that render field k
RefsNext(k) ==
  {<<i, 0>> : i \in {x \in DOMAIN doc' : doc'[x].field = k}}
    \cup UNION {{<<i, j>> : j \in {y \in DOMAIN doc'[i].rows : doc'[i].rows[y].key = k}} :
                  i \in DOMAIN doc'}

\* C24: when the non-empty body "Why chose this product N" precedes its non-empty
\* title, the body is not rendered before the pass reaches the title, the step at
\* the title appends the title's heading directly followed by the body's
\* paragraph, and the finished build renders the body exactly once.
C24_BodyBeforeTitle ==
  [][\A n \in 1..5 :
        BodyBeforeTitle(n) =>
          /\ (InLoop /\ CurKey = WhyTitleNames[n])
                => /\ Refs(WhyBodyNames[n]) = {}
                   /\ doc' = doc \o
                        <<HeadingInstr(3, WhyTitleNames[n], ValueOf(WhyTitleNames[n])),
                          ParagraphInstr(WhyBodyNames[n], ValueOf(WhyBodyNames[n]))>>
          /\ pc' = "done" => Cardinality(RefsNext(WhyBodyNames[n])) = 1]_vars

\* a finished build of a record whose body 1 precedes title 1, with the pair in
\* the document
C24_Witness ==
  /\ Done
  /\ BodyBeforeTitle(1)
  /\ \E i \in 1..(Len(doc) - 1) :
        /\ doc[i].kind = "Heading" /\ doc[i].field = WhyTitleNames[1]
        /\ doc[i + 1].kind = "Paragraph" /\ doc[i + 1].field = WhyBodyNames[1]
  /\ WhyBodyNames[1] \in processed_fields

\* the names of the identifier rule
IdentifierNames == {"SKU", "Scientific Name / mix %"}

\* C25: every instruction that renders "SKU" or "Scientific Name / mix %" is a
\* level-2 heading whose text is the field's value (never a labeled paragraph),
\* and a finished build holds exactly one such heading for each of the two
\* fields that is non-empty.
C25_IdentifierHeading ==
  \A k \in IdentifierNames :
     /\ \A i \in DOMAIN doc :
           doc[i].field = k =>
              /\ doc[i] = HeadingInstr(2, k, ValueOf(k))
              /\ doc[i].kind # "LabeledParagraph"
     /\ (Done /\ NonEmpty(k)) =>
           /\ Cardinality({i \in DOMAIN doc : doc[i].field = k}) = 1
           /\ k \in processed_fields

\* a finished build that rendered both fields, the one right after the other
C25_Witness ==
  /\ Done
  /\ NonEmpty("SKU") /\ NonEmpty("Scientific Name / mix %")
  /\ \E i \in 1..(Len(doc) - 1) :
        /\ doc[i] = HeadingInstr(2, "SKU", ValueOf("SKU"))
        /\ doc[i + 1] = HeadingInstr(2, "Scientific Name / mix %",
                                      ValueOf("Scientific Name / mix %"))

(***************************************************************************)
(* Properties of the store.                                                *)
(***************************************************************************)
\* the Titles of the stored records that have one, lower-cased
LowerTitles(records) ==
  [i \in 1..Len(records) |-> Lower(GetOr(records[i], "Title", <<>>))]

\* pairwise distinct Titles, ignoring case
UniqueTitles(records) ==
  \A i, j \in 1..Len(records) :
     (i # j /\ Has(records[i], "Title") /\ Has(records[j], "Title"))
        => LowerTitles(records)[i] # LowerTitles(records)[j]

\* C10: no two records of the persisted collection have Titles that are equal
\* ignoring case.
C10_StoreUniqueness == UniqueTitles(products_file.products)

\* the stored records whose Title equals the title, ignoring case
SameTitle(records, title) ==
  {i \in 1..Len(records) :
     Has(records[i], "Title") /\ Lower(Get(records[i], "Title")) = Lower(title)}

\* C11: a call of add_new_product whose title equals, ignoring case, the Title
\* of a record already in the store returns False and leaves the store as it was.
C11_DuplicateRejected ==
  [][SameTitle(products_file.products, call'.title) # {}
       => (add_result' = "False" /\ products_file' = products_file)]_vars

\* a call with a key and a usable generated record was refused because the
\* store holds the title in another letter case
C11_Witness ==
  /\ add_result = "False"
  /\ call.key # ""
  /\ call.r.ok /\ call.r.data # <<>>
  /\ \E i \in SameTitle(products_file.products, call.title) :
        Get(products_file.products[i], "Title") # call.title

C13_SingleAttempt == service_calls <= 1

\* a call whose only request failed
C13_Witness ==
  /\ call.key # ""
  /\ ~call.r.ok
  /\ service_calls = 1
  /\ add_result = "False"

\* C17: a successful add leaves the store holding the records it held before,
\* unchanged and at the same positions, followed by the one new record.
C17_AppendOnly ==
  [][add_result' = "True"
       => /\ products_file'.exists
          /\ Len(products_file'.products) = Len(products_file.products) + 1
          /\ \A i \in 1..Len(products_file.products) :
                products_file'.products[i] = products_file.products[i]
          /\ products_file'.products[Len(products_file'.products)] = call'.r.data]_vars

\* a successful add to a store that already held two records
C17_Witness ==
  /\ add_result = "True"
  /\ Len(products_file.products) >= 3
  /\ products_file.products[Len(products_file.products)] = call.r.data

(***************************************************************************)
(* Properties of the file names.                                           *)
(***************************************************************************)
\* s has two underscores side by side
AdjacentUnderscores(s) ==
  \E k \in 1..(Len(s) - 1) : s[k] = "_" /\ s[k + 1] = "_"

\* C19: for every title clean_filename returns a string of word characters only,
\* without whitespace or hyphen, that neither starts nor ends with an underscore;
\* a run of hyphens and whitespace leaves one underscore, so a title without
\* underscores gives no two underscores side by side; "Blue Flax (Linum lewisii)"
\* gives "Blue_Flax_Linum_lewisii".
C19_FilenameSanitized ==
  filename # NoFile =>
    /\ \A k \in 1..Len(filename) :
          /\ filename[k] \in WordChars
          /\ filename[k] \notin Whitespace
          /\ filename[k] # "-"
    /\ filename # <<>> => (filename[1] # "_" /\ filename[Len(filename)] # "_")
    /\ "_" \notin Range(name) => ~AdjacentUnderscores(filename)
    /\ name = Chars("Blue Flax (Linum lewisii)")
          => filename = Chars("Blue_Flax_Linum_lewisii")

\* the file name of a title that holds a run of a hyphen and whitespace and
\* comes out shorter and not empty
C19_Witness ==
  /\ filename # NoFile
  /\ \E k \in 1..(Len(name) - 1) : name[k] = "-" /\ name[k + 1] \in Whitespace
  /\ filename # <<>>
  /\ Len(filename) < Len(name)

(***************************************************************************)
(* Properties of the runs of generate_product_docs.                        *)
(***************************************************************************)
\* the positions of the records whose Title equals the product name ignoring case
Matching ==
  {k \in 1..Len(products) :
     Has(products[k], "Title") /\ Lower(Chars(Get(products[k], "Title"))) = Lower(name)}

\* C14: started with --product <name>, the program writes the document of exactly
\* one record, the one whose Title equals <name> ignoring case; when no record
\* matches it writes no document and exits with a nonzero status.
C14_SingleProductMode ==
  (mode = "product" /\ exit_status # "none")
    => IF Matching # {}
       THEN \E e \in output_dir : output_dir = {e} /\ e.index \in Matching
       ELSE output_dir = {} /\ exit_status # "0"

\* no record is in the collection twice
DistinctRecords ==
  \A a, b \in 1..Len(products) : a # b => products[a] # products[b]

\* C15: after the batch run over a collection of N records (no record twice) the
\* output directory holds the document of each of the N records; none was
\* replaced by the document of another record.
C15_OneDocumentPerRecord ==
  (mode = "batch" /\ exit_status = "0" /\ DistinctRecords)
    => \A k \in 1..Len(products) :
          \E e \in output_dir : e.index = k /\ e.doc = built[k].doc

\* C18: a record's build gives the same render instructions and the same final
\* processed_fields when it is the first build of the run and when it follows
\* the builds of other records.
C18_RecordIsolation ==
  \A a, b \in 1..Len(built) :
     products[a] = products[b] => built[a] = built[b]

\* a record built first and again after a different record whose build left
\* other instructions and another processed_fields behind
C18_Witness ==
  /\ Len(built) >= 3
  /\ products[1] = products[3]
  /\ products[2] # products[1]
  /\ built[2].processed_fields # built[3].processed_fields
  /\ Len(built[2].doc) >= 3
  /\ Len(built[3].doc) >= 3

(***************************************************************************)
(* Properties of the response parsing.                                     *)
(***************************************************************************)
\* where a well-formed object starts in the response
ObjectStarts(s) == {n \in Positions(s, "{") : ValueEnd(s, n) # 0}

\* the first well-formed object substring of the response
FirstObject(s) == SubSeq(s, Min(ObjectStarts(s)), ValueEnd(s, Min(ObjectStarts(s))) - 1)

\* C20: when the response holds a well-formed object, with or without text
\* around it, the function returns the first well-formed object substring; it
\* returns None only when the response holds no well-formed object.
C20_ResponseParsing ==
  (returned.done /\ ObjectStarts(response_text) # {})
    => (returned.ok /\ returned.data = FirstObject(response_text))

(***************************************************************************)
(* Properties of the interactive main.                                     *)
(***************************************************************************)
\* C22: in every step of the prompt loop, add_new_product is called only
\* with a non-empty title, with type 1 and a non-empty scientific name or
\* type 2 and at least one component, and with the confirmation answered y
\* or yes; the render subprocess is started only by the step that follows a
\* successful addition and only on the answer y or yes; and the title
\* prompt leaves the loop exactly when the title typed is quit, exit or q.
C22_InteractiveAddFlow ==
  [][/\ "add_new_product" \in ui_event' =>
          /\ locals'.title \notin {<<>>, NoLocals.title}
          /\ \/ /\ locals'.product_type = <<"1">>
                /\ locals'.scientific_name \notin {<<>>, NoLocals.scientific_name}
             \/ /\ locals'.product_type = <<"2">>
                /\ locals'.mix_components \notin {<<>>, NoLocals.mix_components}
          /\ locals'.confirm \in YesWords
     /\ "subprocess" \in ui_event' =>
          /\ "add_new_product" \in ui_event
          /\ locals.success = "True"
          /\ add_result = "True"
          /\ locals'.generate_doc \in YesWords
     /\ ui_pc = "title" =>
          (ui_pc' = "done" <=> Lower(locals'.title) \in QuitWords)]_vars

\* a mix of two components was confirmed with "Yes", added to the store,
\* and the subprocess was started on the answer that followed
C22_Witness ==
  /\ ui_event = {"subprocess"}
  /\ locals.title = <<"a">>
  /\ locals.product_type = <<"2">>
  /\ Len(locals.mix_components) = MaxComponents
  /\ locals.confirm = <<"y", "e", "s">>
  /\ locals.success = "True"
  /\ locals.generate_doc \in YesWords
  /\ products_file = save_products(<<StoredRecord(<<"A">>)>>)

====
